---- MODULE Spec2Model ----
(***************************************************************************)
(* Model of src/key.cpp: a five-switch macro keyboard.  loop() debounces   *)
(* the switches and dispatches each debounced press to onPressed(), which  *)
(* runs a blocking, timed key macro (cmd_hadouken, cmd_shoryu, cmd_tatsu)  *)
(* or toggles facingRight.                                                  *)
(*                                                                         *)
(* The program is single-threaded.  Its positions are:                     *)
(*   pc = "idle"   between two calls of loop()                             *)
(*   pc = "macro"  inside loop()'s for at channel i, in the cmd_* function *)
(*                 onPressed(i) called, about to make call number step of  *)
(*                 its body                                                *)
(* The environment moves the pins, lets time pass between loop() calls and *)
(* decides at every send whether the USB transport is ready.               *)
(***************************************************************************)
EXTENDS Integers, Sequences, FiniteSets, TLC

\* ------------------------------------------------------------ settings
N == 5
DEBOUNCE_MS == 30
STEP == 28
TAP == 22
GAP == 16

LOW == 0
HIGH == 1

KEY_LEFT == "HID_KEY_A"
KEY_DOWN == "HID_KEY_S"
KEY_RIGHT == "HID_KEY_D"
LP == "HID_KEY_J"
MP == "HID_KEY_K"
HP == "HID_KEY_SEMICOLON"
LK == "HID_KEY_N"
MK == "HID_KEY_M"
HK == "HID_KEY_COMMA"

BTN_HADOU == 0
BTN_SHORYU == 1
BTN_TATSU == 2
BTN_TOGGLE_FACE == 3

Channels == 0 .. (N - 1)

\* ------------------------------------------------------------ bounds
\* Times the environment lets time pass between two calls of loop().
MaxTicks == 3
\* Switches the environment moves in one behaviour.
MaxMoving == 2
\* Pin level changes the environment makes in one behaviour.
MaxPinChanges == 3
\* Sends that find the transport not ready in one behaviour of Spec.
MaxDrops == 1
\* Time that passes between two calls of loop().
Ticks == {15, 30}

\* ------------------------------------------------------------ uint32_t
\* A uint32_t is the pair <<high half, low half>> of 16-bit halves.
W16 == 65536

U32(h, l) == <<h, l>>

\* a + d (mod 2^32) for 0 <= d < 2^16
U32Add(a, d) ==
  LET s == a[2] + d
  IN  <<(a[1] + (s \div W16)) % W16, s % W16>>

\* a - b (mod 2^32)
U32Sub(a, b) ==
  LET l == a[2] - b[2]
      borrow == IF l < 0 THEN 1 ELSE 0
  IN  <<(a[1] - b[1] - borrow + W16) % W16, (l + W16) % W16>>

\* a >= c for 0 <= c < 2^16
U32Ge(a, c) == a[1] > 0 \/ a[2] >= c

VARIABLES
  pin,            \* the level digitalRead(SWITCH_PINS[c]) returns now
  clock,          \* millis(), a uint32_t
  pc, i, now,     \* position, loop()'s index and its local now
  lastStable, debouncing, lastChangeMs, facingRight,
  cmd, step,      \* the running macro: [name, arg], and the next call of it
  hid,            \* the key set asserted on the transport
  log,            \* the calls and waits of the running macro, in order
  t, nowT,        \* real time, and the real time at which now was read
  awayT,          \* per channel: nowT of the scan whose sample first differed
                  \* from the stable level with no equal sample since, or -1
  awayS,          \* per channel: the real time at which that sample was taken
  nPress,         \* per channel: calls of onPressed(c)
  moving,         \* the switches the environment moves in this behaviour
  pinLeft, dropsLeft, ticksLeft,  \* what is left of the bounds
  mPins           \* per channel: pin changes inside the macros of the last
                  \* call of loop()

vars == <<pin, clock, pc, i, now, lastStable, debouncing, lastChangeMs,
          facingRight, cmd, step, hid, log, t, nowT, awayT, awayS, nPress,
          pinLeft, dropsLeft, ticksLeft, moving, mPins>>

scanVars == <<lastStable, debouncing, lastChangeMs>>

\* ------------------------------------------------------------ macros
\* A macro body is the sequence of the primitive calls it makes.  A key is
\* a key code, or "FORWARD" / "BACKWARD", resolved when the call is made.
SendOp(ks) == [op |-> "sendKeys", keys |-> ks, ms |-> 0]
DelayOp(ms) == [op |-> "delay", keys |-> <<>>, ms |-> ms]
ReleaseOp == [op |-> "releaseAll", keys |-> <<>>, ms |-> 0]

FORWARD == IF facingRight THEN KEY_RIGHT ELSE KEY_LEFT
\* BACKWARD() that forgets the facing.
BACKWARD_fixed == KEY_LEFT

BACKWARD == IF facingRight THEN KEY_LEFT ELSE KEY_RIGHT

Resolve(k) ==
  IF k = "FORWARD" THEN FORWARD
  ELSE IF k = "BACKWARD" THEN BACKWARD
  ELSE k

\* kc[6]: the first six keys of the list
Kc(ks) ==
  LET n == IF Len(ks) < 6 THEN Len(ks) ELSE 6
  IN  [j \in 1 .. n |-> Resolve(ks[j])]

hold(ks, ms) == <<SendOp(ks), DelayOp(ms)>>

\* tap() that releases before its hold instead of after it.
tap_releaseFirst(k, ms) == <<ReleaseOp>> \o hold(<<k>>, ms) \o <<DelayOp(GAP)>>

\* tap() without its trailing gap.
tap_noGap(k, ms) == hold(<<k>>, ms) \o <<ReleaseOp>>

tap(k, ms) == hold(<<k>>, ms) \o <<ReleaseOp, DelayOp(GAP)>>

hold_df(ms) == hold(<<KEY_DOWN, "FORWARD">>, ms)
hold_db(ms) == hold(<<KEY_DOWN, "BACKWARD">>, ms)

\* cmd_hadouken() that presses the attack with Forward still held.
cmd_hadouken_heldTap(punch) ==
  hold(<<KEY_DOWN>>, STEP) \o <<ReleaseOp, DelayOp(GAP)>>
  \o hold_df(STEP) \o <<ReleaseOp, DelayOp(GAP)>>
  \o hold(<<"FORWARD">>, STEP \div 2)
  \o hold(<<"FORWARD", punch>>, TAP) \o <<ReleaseOp, DelayOp(GAP)>>
  \o <<ReleaseOp>>

cmd_hadouken(punch) ==
  hold(<<KEY_DOWN>>, STEP) \o <<ReleaseOp, DelayOp(GAP)>>
  \o hold_df(STEP) \o <<ReleaseOp, DelayOp(GAP)>>
  \o hold(<<"FORWARD">>, STEP \div 2)
  \o tap(punch, TAP)
  \o <<ReleaseOp>>

\* cmd_shoryu() with whole gaps after its first two steps.
cmd_shoryu_fullGap(punch) ==
  hold(<<"FORWARD">>, STEP \div 2) \o <<ReleaseOp, DelayOp(GAP)>>
  \o hold(<<KEY_DOWN>>, STEP \div 2) \o <<ReleaseOp, DelayOp(GAP)>>
  \o hold_df(STEP)
  \o tap(punch, TAP)
  \o <<ReleaseOp>>

cmd_shoryu(punch) ==
  hold(<<"FORWARD">>, STEP \div 2) \o <<ReleaseOp, DelayOp(GAP \div 2)>>
  \o hold(<<KEY_DOWN>>, STEP \div 2) \o <<ReleaseOp, DelayOp(GAP \div 2)>>
  \o hold_df(STEP)
  \o tap(punch, TAP)
  \o <<ReleaseOp>>

\* cmd_tatsu() whose diagonal is down-forward.
cmd_tatsu_forward(kick) ==
  hold(<<KEY_DOWN>>, STEP) \o <<ReleaseOp, DelayOp(GAP)>>
  \o hold_df(STEP) \o <<ReleaseOp, DelayOp(GAP)>>
  \o hold(<<"BACKWARD">>, STEP \div 2)
  \o tap(kick, TAP)
  \o <<ReleaseOp>>

cmd_tatsu(kick) ==
  hold(<<KEY_DOWN>>, STEP) \o <<ReleaseOp, DelayOp(GAP)>>
  \o hold_db(STEP) \o <<ReleaseOp, DelayOp(GAP)>>
  \o hold(<<"BACKWARD">>, STEP \div 2)
  \o tap(kick, TAP)
  \o <<ReleaseOp>>

NoCmd == [name |-> "none", arg |-> "none"]

Body(c) ==
  IF c.name = "cmd_hadouken" THEN cmd_hadouken(c.arg)
  ELSE IF c.name = "cmd_shoryu" THEN cmd_shoryu(c.arg)
  ELSE IF c.name = "cmd_tatsu" THEN cmd_tatsu(c.arg)
  ELSE <<>>

\* onPressed() whose toggle case is one channel too far.
onPressed_offByOne(idx) ==
  IF idx = BTN_HADOU THEN [name |-> "cmd_hadouken", arg |-> LP]
  ELSE IF idx = BTN_SHORYU THEN [name |-> "cmd_shoryu", arg |-> MP]
  ELSE IF idx = BTN_TATSU THEN [name |-> "cmd_tatsu", arg |-> LK]
  ELSE IF idx = BTN_TOGGLE_FACE + 1 THEN [name |-> "toggle", arg |-> "none"]
  ELSE [name |-> "none", arg |-> "none"]

\* onPressed whose default case runs the macro of the last button.
onPressed_defaultTatsu(idx) ==
  IF idx = BTN_HADOU THEN [name |-> "cmd_hadouken", arg |-> LP]
  ELSE IF idx = BTN_SHORYU THEN [name |-> "cmd_shoryu", arg |-> MP]
  ELSE IF idx = BTN_TOGGLE_FACE THEN [name |-> "toggle", arg |-> "none"]
  ELSE [name |-> "cmd_tatsu", arg |-> LK]

\* onPressed(idx): the macro the switch statement calls, "toggle" for the
\* facing toggle, "none" for the default case.
onPressed(idx) ==
  IF idx = BTN_HADOU THEN [name |-> "cmd_hadouken", arg |-> LP]
  ELSE IF idx = BTN_SHORYU THEN [name |-> "cmd_shoryu", arg |-> MP]
  ELSE IF idx = BTN_TATSU THEN [name |-> "cmd_tatsu", arg |-> LK]
  ELSE IF idx = BTN_TOGGLE_FACE THEN [name |-> "toggle", arg |-> "none"]
  ELSE NoCmd

\* ------------------------------------------------------------ debounce
\* The elapsed-time test with > for >=.
Elapsed_gt(nowv, last) == U32Ge(U32Sub(nowv, last), DEBOUNCE_MS + 1)

\* The test as now >= lastChangeMs[i] + DEBOUNCE_MS on numbers that do not
\* wrap.
Elapsed_noWrap(nowv, last) ==
  \/ nowv[1] > last[1]
  \/ nowv[1] = last[1] /\ nowv[2] >= last[2] + DEBOUNCE_MS

\* now - lastChangeMs[i] >= DEBOUNCE_MS, in uint32_t arithmetic
Elapsed(nowv, last) == U32Ge(U32Sub(nowv, last), DEBOUNCE_MS)

\* The debounce step without the else of line 150: a sample equal to the
\* stable level does not cancel the transition.
Debounce_noCancel(raw, stable, deb, last, nowv) ==
  IF raw # stable
  THEN IF ~deb
       THEN [stable |-> stable, deb |-> TRUE, last |-> nowv, press |-> FALSE]
       ELSE IF U32Ge(U32Sub(nowv, last), DEBOUNCE_MS)
            THEN [stable |-> raw, deb |-> FALSE, last |-> last,
                  press |-> (raw = LOW)]
            ELSE [stable |-> stable, deb |-> deb, last |-> last,
                  press |-> FALSE]
  ELSE [stable |-> stable, deb |-> deb, last |-> last, press |-> FALSE]

\* The body that begins a transition without stamping it.
Debounce_noStamp(raw, stable, deb, last, nowv) ==
  IF raw # stable
  THEN IF ~deb
       THEN [stable |-> stable, deb |-> TRUE, last |-> last, press |-> FALSE]
       ELSE IF U32Ge(U32Sub(nowv, last), DEBOUNCE_MS)
            THEN [stable |-> raw, deb |-> FALSE, last |-> last,
                  press |-> (raw = LOW)]
            ELSE [stable |-> stable, deb |-> deb, last |-> last,
                  press |-> FALSE]
  ELSE [stable |-> stable, deb |-> FALSE, last |-> last, press |-> FALSE]

\* The body of loop()'s for, for one channel: the channel's new state and
\* whether onPressed is called.
Debounce(raw, stable, deb, last, nowv) ==
  IF raw # stable
  THEN IF ~deb
       THEN [stable |-> stable, deb |-> TRUE, last |-> nowv, press |-> FALSE]
       ELSE IF Elapsed(nowv, last)
            THEN [stable |-> raw, deb |-> FALSE, last |-> last,
                  press |-> (raw = LOW)]
            ELSE [stable |-> stable, deb |-> deb, last |-> last,
                  press |-> FALSE]
  ELSE [stable |-> stable, deb |-> FALSE, last |-> last, press |-> FALSE]

\* ------------------------------------------------------------ start
\* The pins at the time setup() samples them: all released, or one held.
InitPins ==
  {[c \in Channels |-> HIGH]}
  \cup {[c \in Channels |-> IF c = h THEN LOW ELSE HIGH] : h \in Channels}

\* millis() at the first call of loop().
StartClocks == {U32(0, 1000)}

Zeros == [c \in Channels |-> 0]

\* setup() that takes every switch as released instead of sampling it.
SetupState_assumeReleased ==
  /\ pin \in InitPins
  /\ lastStable = [c \in Channels |-> HIGH]
  /\ debouncing = [c \in Channels |-> FALSE]
  /\ lastChangeMs = [c \in Channels |-> U32(0, 0)]
  /\ facingRight = TRUE
  /\ clock \in StartClocks
  /\ pc = "idle" /\ i = 0 /\ now = U32(0, 0)
  /\ cmd = NoCmd /\ step = 0
  /\ hid = <<>> /\ log = <<>>
  /\ t = 0 /\ nowT = 0
  /\ awayT = [c \in Channels |-> -1]
  /\ awayS = [c \in Channels |-> -1]
  /\ nPress = Zeros /\ mPins = Zeros

\* The state setup() leaves (lines 110-116, and the initializer of line 42).
SetupState ==
  /\ pin \in InitPins
  /\ lastStable = pin
  /\ debouncing = [c \in Channels |-> FALSE]
  /\ lastChangeMs = [c \in Channels |-> U32(0, 0)]
  /\ facingRight = TRUE
  /\ clock \in StartClocks
  /\ pc = "idle" /\ i = 0 /\ now = U32(0, 0)
  /\ cmd = NoCmd /\ step = 0
  /\ hid = <<>> /\ log = <<>>
  /\ t = 0 /\ nowT = 0
  /\ awayT = [c \in Channels |-> -1]
  /\ awayS = [c \in Channels |-> -1]
  /\ nPress = Zeros /\ mPins = Zeros

\* The environment of one behaviour: at most MaxMoving switches move, only
\* they may be held at setup, and the transport fails at most MaxDrops
\* sends, none at all when MaxMoving switches move.
Init ==
  /\ SetupState
  /\ moving \in {m \in SUBSET Channels : Cardinality(m) <= MaxMoving}
  /\ \A c \in Channels : pin[c] = LOW => c \in moving
  /\ pinLeft = MaxPinChanges
  /\ dropsLeft = IF Cardinality(moving) < MaxMoving THEN MaxDrops ELSE 0
  /\ ticksLeft = MaxTicks

\* The running macro is about to make a call of this kind.
AtOp(kind) ==
  /\ pc = "macro"
  /\ step <= Len(Body(cmd))
  /\ Body(cmd)[step].op = kind

\* ------------------------------------------------------------ environment
\* Time passes between two calls of loop().
Tick(d) ==
  /\ pc = "idle"
  /\ ticksLeft > 0
  /\ ticksLeft' = ticksLeft - 1
  /\ clock' = U32Add(clock, d)
  /\ t' = t + d
  /\ UNCHANGED <<pin, pc, i, now, lastStable, debouncing, lastChangeMs,
                 facingRight, cmd, step, hid, log, nowT, awayT, awayS, nPress,
                 pinLeft, dropsLeft, moving, mPins>>

\* Time passes here: between two calls of loop(), and inside delay().
TimePasses == pc = "idle" \/ (pc = "macro" /\ AtOp("delay"))

\* A switch is pressed or released (or bounces) while time passes.
PinChange(c) ==
  /\ TimePasses
  /\ c \in moving
  /\ pinLeft > 0
  /\ pinLeft' = pinLeft - 1
  /\ pin' = [pin EXCEPT ![c] = IF @ = LOW THEN HIGH ELSE LOW]
  /\ mPins' = IF pc = "macro" THEN [mPins EXCEPT ![c] = @ + 1] ELSE mPins
  /\ UNCHANGED <<clock, pc, i, now, lastStable, debouncing, lastChangeMs,
                 facingRight, cmd, step, hid, log, t, nowT, awayT, awayS, nPress,
                 dropsLeft, ticksLeft, moving>>

\* ------------------------------------------------------------ loop()
IsMacro(c) == c.name \in {"cmd_hadouken", "cmd_shoryu", "cmd_tatsu"}

\* The program's own variables and the histories kept about them, as the
\* for of lines 139-153 changes them.
ScanState ==
  [lastStable |-> lastStable, debouncing |-> debouncing,
   lastChangeMs |-> lastChangeMs, facingRight |-> facingRight,
   awayT |-> awayT, awayS |-> awayS, nPress |-> nPress, i |-> i, cmd |-> NoCmd]

\* The toggle case that clears the facing instead of flipping it.
ToggleFace_clear(f) == FALSE

\* facingRight = !facingRight, line 131.
ToggleFace(f) == ~f

\* The iteration that flips the facing on every commit of channel 3, a
\* release included.
ScanChannel_flipOnCommit(k, s, nowv, nowReal) ==
  LET raw == pin[k]
      r == Debounce(raw, s.lastStable[k], s.debouncing[k],
                    s.lastChangeMs[k], nowv)
      c == IF r.press THEN onPressed(k) ELSE NoCmd
  IN  [lastStable |-> [s.lastStable EXCEPT ![k] = r.stable],
       debouncing |-> [s.debouncing EXCEPT ![k] = r.deb],
       lastChangeMs |-> [s.lastChangeMs EXCEPT ![k] = r.last],
       facingRight |-> IF k = BTN_TOGGLE_FACE /\ r.stable # s.lastStable[k]
                       THEN ToggleFace(s.facingRight)
                       ELSE s.facingRight,
       awayT |-> [s.awayT EXCEPT ![k] =
                    IF raw = s.lastStable[k] \/ r.stable # s.lastStable[k]
                    THEN -1
                    ELSE IF @ = -1 THEN nowReal ELSE @],
       awayS |-> [s.awayS EXCEPT ![k] =
                    IF raw = s.lastStable[k] \/ r.stable # s.lastStable[k]
                    THEN -1
                    ELSE IF @ = -1 THEN t ELSE @],
       nPress |-> [s.nPress EXCEPT ![k] = IF r.press THEN @ + 1 ELSE @],
       i |-> k,
       cmd |-> c]

\* One iteration of the for, lines 140-152, on channel k: the debounce step
\* and, on a press, onPressed(k) up to the call of a macro.
ScanChannel(k, s, nowv, nowReal) ==
  LET raw == pin[k]
      r == Debounce(raw, s.lastStable[k], s.debouncing[k],
                    s.lastChangeMs[k], nowv)
      c == IF r.press THEN onPressed(k) ELSE NoCmd
  IN  [lastStable |-> [s.lastStable EXCEPT ![k] = r.stable],
       debouncing |-> [s.debouncing EXCEPT ![k] = r.deb],
       lastChangeMs |-> [s.lastChangeMs EXCEPT ![k] = r.last],
       facingRight |-> IF c.name = "toggle" THEN ToggleFace(s.facingRight)
                       ELSE s.facingRight,
       awayT |-> [s.awayT EXCEPT ![k] =
                    IF raw = s.lastStable[k] \/ r.stable # s.lastStable[k]
                    THEN -1
                    ELSE IF @ = -1 THEN nowReal ELSE @],
       awayS |-> [s.awayS EXCEPT ![k] =
                    IF raw = s.lastStable[k] \/ r.stable # s.lastStable[k]
                    THEN -1
                    ELSE IF @ = -1 THEN t ELSE @],
       nPress |-> [s.nPress EXCEPT ![k] = IF r.press THEN @ + 1 ELSE @],
       i |-> k,
       cmd |-> c]

\* The for that does not block in a macro: it scans every channel and
\* then runs the macro of the last channel pressed.
RECURSIVE ScanFrom_noBlock(_, _, _, _)
ScanFrom_noBlock(k, s, nowv, nowReal) ==
  IF k >= N
  THEN [s EXCEPT !.i = N, !.cmd = NoCmd]
  ELSE LET s2 == ScanChannel(k, s, nowv, nowReal)
           rest == ScanFrom_noBlock(k + 1, s2, nowv, nowReal)
       IN  IF IsMacro(rest.cmd) \/ ~IsMacro(s2.cmd) THEN rest
           ELSE [rest EXCEPT !.i = k, !.cmd = s2.cmd]

\* The for of lines 139-153 from channel k on, until it ends (i = N) or
\* calls a macro (cmd, for channel i).
RECURSIVE ScanFrom(_, _, _, _)
ScanFrom(k, s, nowv, nowReal) ==
  IF k >= N
  THEN [s EXCEPT !.i = N, !.cmd = NoCmd]
  ELSE LET s2 == ScanChannel(k, s, nowv, nowReal)
       IN  IF IsMacro(s2.cmd) THEN s2 ELSE ScanFrom(k + 1, s2, nowv, nowReal)

\* The program goes on to state s of the for.
GoOn(s) ==
  /\ lastStable' = s.lastStable
  /\ debouncing' = s.debouncing
  /\ lastChangeMs' = s.lastChangeMs
  /\ facingRight' = s.facingRight
  /\ awayT' = s.awayT
  /\ awayS' = s.awayS
  /\ nPress' = s.nPress
  /\ i' = s.i
  /\ cmd' = s.cmd
  /\ log' = <<>>
  /\ IF IsMacro(s.cmd)
     THEN pc' = "macro" /\ step' = 1
     ELSE pc' = "idle" /\ step' = 0

\* loop() is called, lines 137-154: it runs to its end or to the call of a
\* macro.
Loop ==
  /\ pc = "idle"
  /\ now' = clock
  /\ nowT' = t
  /\ GoOn(ScanFrom(0, ScanState, clock, t))
  /\ mPins' = Zeros
  /\ UNCHANGED <<pin, clock, hid, t, pinLeft, dropsLeft, ticksLeft, moving>>

\* ------------------------------------------------------------ macro calls
Logged(kind, ks, ms, sent) ==
  Append(log, [op |-> kind, keys |-> ks, ms |-> ms, sent |-> sent])

\* sendKeys() that tries again when the transport is not ready.
sendKeys_retry(ks, ready) ==
  /\ hid' = IF ready THEN Kc(ks) ELSE hid
  /\ log' = Append(log, [op |-> "report", keys |-> Kc(ks), ms |-> 0,
                         sent |-> ready])
  /\ step' = IF ready THEN step + 1 ELSE step

\* sendKeys(keys, count), lines 47-52; ready is what ready() returns.
sendKeys(ks, ready) ==
  /\ hid' = IF ready THEN Kc(ks) ELSE hid
  /\ log' = Logged("report", Kc(ks), 0, ready)
  /\ step' = step + 1

\* releaseAll(), lines 54-57.
releaseAll(ready) ==
  /\ hid' = IF ready THEN <<>> ELSE hid
  /\ log' = Logged("release", <<>>, 0, ready)
  /\ step' = step + 1

\* delay() that polls the switches while it waits.
delay_polling(ms) ==
  /\ clock' = U32Add(clock, ms)
  /\ t' = t + ms
  /\ log' = Append(log, [op |-> "wait", keys |-> <<>>, ms |-> ms,
                         sent |-> TRUE])
  /\ step' = step + 1
  /\ debouncing' = [c \in Channels |-> pin[c] # lastStable[c]]
  /\ lastChangeMs' = [c \in Channels |->
                        IF pin[c] # lastStable[c] /\ ~debouncing[c]
                        THEN clock ELSE lastChangeMs[c]]
  /\ UNCHANGED lastStable

\* delay(ms): the program blocks while ms milliseconds pass.
delay(ms) ==
  /\ clock' = U32Add(clock, ms)
  /\ t' = t + ms
  /\ log' = Logged("wait", <<>>, ms, TRUE)
  /\ step' = step + 1
  /\ UNCHANGED scanVars

SendStep(ready) ==
  /\ AtOp("sendKeys")
  /\ ready \/ dropsLeft > 0
  /\ dropsLeft' = IF ready THEN dropsLeft ELSE dropsLeft - 1
  /\ sendKeys(Body(cmd)[step].keys, ready)
  /\ UNCHANGED <<pin, clock, pc, i, now, lastStable, debouncing, lastChangeMs,
                 facingRight, cmd, t, nowT, awayT, awayS, nPress, pinLeft,
                 ticksLeft, moving, mPins>>

ReleaseStep(ready) ==
  /\ AtOp("releaseAll")
  /\ ready \/ dropsLeft > 0
  /\ dropsLeft' = IF ready THEN dropsLeft ELSE dropsLeft - 1
  /\ releaseAll(ready)
  /\ UNCHANGED <<pin, clock, pc, i, now, lastStable, debouncing, lastChangeMs,
                 facingRight, cmd, t, nowT, awayT, awayS, nPress, pinLeft,
                 ticksLeft, moving, mPins>>

DelayStep ==
  /\ AtOp("delay")
  /\ delay(Body(cmd)[step].ms)
  /\ UNCHANGED <<pin, pc, i, now, facingRight, cmd, hid, nowT, awayT, awayS, nPress,
                 pinLeft, dropsLeft, ticksLeft, moving, mPins>>

\* The return of a macro that starts the for again at channel 0.
Return_restart ==
  /\ pc = "macro"
  /\ step > Len(Body(cmd))
  /\ GoOn(ScanFrom(0, ScanState, now, nowT))
  /\ UNCHANGED <<pin, clock, now, hid, t, nowT, pinLeft, dropsLeft,
                 ticksLeft, moving, mPins>>

\* The macro returns, onPressed returns, and the for goes on from the next
\* channel with the now it read before the macro.
Return ==
  /\ pc = "macro"
  /\ step > Len(Body(cmd))
  /\ GoOn(ScanFrom(i + 1, ScanState, now, nowT))
  /\ UNCHANGED <<pin, clock, now, hid, t, nowT, pinLeft, dropsLeft,
                 ticksLeft, moving, mPins>>

Next ==
  \/ \E d \in Ticks : Tick(d)
  \/ \E c \in Channels : PinChange(c)
  \/ Loop
  \/ \E ready \in BOOLEAN : SendStep(ready)
  \/ \E ready \in BOOLEAN : ReleaseStep(ready)
  \/ DelayStep
  \/ Return

Spec == Init /\ [][Next]_vars

\* ------------------------------------------------------------ one command
\* A command called on its own: any of the three, with any attack code and
\* either facing, the transport ready or not at each of its sends.
AttackCodes == {LP, MP, HP, LK, MK, HK}

CmdCalls ==
  [name : {"cmd_hadouken", "cmd_shoryu", "cmd_tatsu"}, arg : AttackCodes]

InitCmd ==
  /\ pin = [c \in Channels |-> HIGH]
  /\ lastStable = pin
  /\ debouncing = [c \in Channels |-> FALSE]
  /\ lastChangeMs = [c \in Channels |-> U32(0, 0)]
  /\ facingRight \in BOOLEAN
  /\ clock \in StartClocks
  /\ now = clock
  /\ pc = "macro" /\ i = 0
  /\ cmd \in CmdCalls
  /\ step = 1
  /\ hid = <<>> /\ log = <<>>
  /\ t = 0 /\ nowT = 0
  /\ awayT = [c \in Channels |-> -1]
  /\ awayS = [c \in Channels |-> -1]
  /\ nPress = Zeros /\ mPins = Zeros
  /\ moving = {}
  /\ pinLeft = 0 /\ ticksLeft = 0
  /\ dropsLeft = Len(Body(cmd))

NextCmd ==
  \/ \E ready \in BOOLEAN : SendStep(ready)
  \/ \E ready \in BOOLEAN : ReleaseStep(ready)
  \/ DelayStep

SpecCmd == InitCmd /\ [][NextCmd]_vars

\* ------------------------------------------------------------ toggle twice
\* The whole program with the facing toggle and one macro button moving,
\* the transport always ready, and one more pin change and one more tick
\* than Spec: enough for two presses of the toggle and a macro after them.
InitToggle ==
  /\ SetupState
  /\ pin = [c \in Channels |-> HIGH]
  /\ moving \in {{m, BTN_TOGGLE_FACE} : m \in {BTN_HADOU, BTN_SHORYU, BTN_TATSU}}
  /\ pinLeft = MaxPinChanges + 1
  /\ dropsLeft = 0
  /\ ticksLeft = MaxTicks + 1

SpecToggle == InitToggle /\ [][Next]_vars

\* ------------------------------------------------------------ held at setup
\* One button is held when setup() samples it, and only that button moves.
InitHeld ==
  /\ SetupState
  /\ \E h \in Channels : pin[h] = LOW /\ moving = {h}
  /\ pinLeft = MaxPinChanges
  /\ dropsLeft = MaxDrops
  /\ ticksLeft = MaxTicks + 1

SpecHeld == InitHeld /\ [][Next]_vars

\* ------------------------------------------------------------ millis() wraps
\* millis() at the first call of loop(), within 45 ms of its wrap to 0.
WrapClocks == {U32(W16 - 1, W16 - d) : d \in {15, 30, 45}}

\* The state setup() leaves with every switch released and one switch
\* moving, when the first call of loop() comes shortly before the wrap.
InitWrap ==
  /\ pin = [c \in Channels |-> HIGH]
  /\ lastStable = pin
  /\ debouncing = [c \in Channels |-> FALSE]
  /\ lastChangeMs = [c \in Channels |-> U32(0, 0)]
  /\ facingRight = TRUE
  /\ clock \in WrapClocks
  /\ pc = "idle" /\ i = 0 /\ now = U32(0, 0)
  /\ cmd = NoCmd /\ step = 0
  /\ hid = <<>> /\ log = <<>>
  /\ t = 0 /\ nowT = 0
  /\ awayT = [c \in Channels |-> -1]
  /\ awayS = [c \in Channels |-> -1]
  /\ nPress = Zeros /\ mPins = Zeros
  /\ \E c \in Channels : moving = {c}
  /\ pinLeft = MaxPinChanges
  /\ dropsLeft = MaxDrops
  /\ ticksLeft = MaxTicks + 1

SpecWrap == InitWrap /\ [][Next]_vars

\* ------------------------------------------------------------ claims
\* Channel c is committed or pressed by this step.
Committed(c) == lastStable'[c] # lastStable[c]
Pressed(c) == nPress'[c] # nPress[c]

SampledThisPass(c) == pc = "idle" \/ c <= i

\* No sampled channel is left away from its stable level for DEBOUNCE_MS.
NoneOverdue ==
  \A c \in Channels :
    (SampledThisPass(c) /\ awayT[c] # -1) => nowT - awayT[c] < DEBOUNCE_MS

\* C2: a level that differs from the stable level for at least DEBOUNCE_MS,
\* with no sample equal to the stable level in between, is committed by the
\* first scan that samples it then; the commit takes the sampled level and
\* calls onPressed(c) once if that level is LOW and not at all if it is
\* HIGH; and onPressed(c) is called only by a commit from HIGH to LOW, so a
\* held button gives no second press before a release is committed.
C2_CommittedOnce ==
  [][/\ NoneOverdue'
     /\ \A c \in Channels :
          /\ Committed(c) =>
               /\ lastStable'[c] = pin[c]
               /\ nPress'[c] = nPress[c] + (IF pin[c] = LOW THEN 1 ELSE 0)
          /\ Pressed(c) =>
               /\ lastStable[c] = HIGH /\ lastStable'[c] = LOW
               /\ nPress'[c] = nPress[c] + 1]_vars

\* A button was pressed, released and pressed again.
C2_Witness == \E c \in Channels : nPress[c] = 2

\* C7: a press of the facing toggle (channel 3) flips facingRight once and
\* makes no transport call, neither then nor by starting a macro; and
\* facingRight flips only by such a press, which is a commit from HIGH to
\* LOW, so a held toggle button does not flip it again.
C7_ToggleFlipsOnce ==
  [][/\ Pressed(BTN_TOGGLE_FACE) =>
          /\ facingRight' = ~facingRight
          /\ hid' = hid
          /\ log' = <<>>
          /\ ~(pc' = "macro" /\ i' = BTN_TOGGLE_FACE)
     /\ facingRight' # facingRight =>
          /\ nPress'[BTN_TOGGLE_FACE] = nPress[BTN_TOGGLE_FACE] + 1
          /\ lastStable[BTN_TOGGLE_FACE] = HIGH
          /\ lastStable'[BTN_TOGGLE_FACE] = LOW]_vars

\* The toggle was pressed once and has been held for DEBOUNCE_MS since.
C7_Witness ==
  /\ nPress[BTN_TOGGLE_FACE] = 1
  /\ facingRight = FALSE
  /\ pin[BTN_TOGGLE_FACE] = LOW
  /\ pc = "idle"
  /\ t >= 2 * DEBOUNCE_MS
  /\ nowT = t

\* C8: while a macro runs no channel is sampled: lastStable, debouncing and
\* lastChangeMs change in no step from the macro's first call to its last.
\* A press needs a LOW sample: a button pressed and released inside the
\* macro, back at its HIGH stable level when the scan goes on, is not
\* pressed by that scan and leaves no transition in progress.
C8_MacroBlocksScan ==
  [][/\ (pc = "macro" /\ step <= Len(Body(cmd))) => UNCHANGED scanVars
     /\ \A c \in Channels :
          /\ Pressed(c) => pin[c] = LOW
          /\ (pc = "macro" /\ step > Len(Body(cmd)) /\ mPins[c] >= 2
              /\ pin[c] = HIGH /\ lastStable[c] = HIGH)
               => /\ nPress'[c] = nPress[c]
                  /\ lastStable'[c] = HIGH
                  /\ ~debouncing'[c]]_vars

\* After a macro, the scan has gone on past a button that was pressed and
\* released inside it.
C8_Witness ==
  \E c \in Channels :
    /\ pc = "idle"
    /\ mPins[c] = 2
    /\ pin[c] = HIGH /\ lastStable[c] = HIGH
    /\ nPress[c] = 0
    /\ \E m \in Channels : m < c /\ nPress[m] = 1

\* ------------------------------------------------------------ traces
\* What a macro is said to emit: a key report, a release-all, a wait.
Rep(ks) == [op |-> "report", keys |-> ks, ms |-> 0, sent |-> TRUE]
Rel == [op |-> "release", keys |-> <<>>, ms |-> 0, sent |-> TRUE]
Wait(ms) == [op |-> "wait", keys |-> <<>>, ms |-> ms, sent |-> TRUE]

HadoukenTrace(fwd, atk) ==
  <<Rep(<<KEY_DOWN>>), Wait(STEP), Rel, Wait(GAP),
    Rep(<<KEY_DOWN, fwd>>), Wait(STEP), Rel, Wait(GAP),
    Rep(<<fwd>>), Wait(STEP \div 2),
    Rep(<<atk>>), Wait(TAP), Rel, Wait(GAP),
    Rel>>

ShoryuTrace(fwd, atk) ==
  <<Rep(<<fwd>>), Wait(STEP \div 2), Rel, Wait(GAP \div 2),
    Rep(<<KEY_DOWN>>), Wait(STEP \div 2), Rel, Wait(GAP \div 2),
    Rep(<<KEY_DOWN, fwd>>), Wait(STEP),
    Rep(<<atk>>), Wait(TAP), Rel, Wait(GAP),
    Rel>>

TatsuTrace(bwd, atk) ==
  <<Rep(<<KEY_DOWN>>), Wait(STEP), Rel, Wait(GAP),
    Rep(<<KEY_DOWN, bwd>>), Wait(STEP), Rel, Wait(GAP),
    Rep(<<bwd>>), Wait(STEP \div 2),
    Rep(<<atk>>), Wait(TAP), Rel, Wait(GAP),
    Rel>>

\* The trace of command c when Forward is key fwd and Backward is key bwd.
TraceOf(c, fwd, bwd) ==
  IF c.name = "cmd_hadouken" THEN HadoukenTrace(fwd, c.arg)
  ELSE IF c.name = "cmd_shoryu" THEN ShoryuTrace(fwd, c.arg)
  ELSE TatsuTrace(bwd, c.arg)

Prefix(e, n) == SubSeq(e, 1, IF n < Len(e) THEN n ELSE Len(e))

AllSent(l) == \A j \in 1 .. Len(l) : l[j].sent

\* l with every attempt taken as made.
Erase(l) == [j \in 1 .. Len(l) |-> [l[j] EXCEPT !.sent = TRUE]]

SwapKey(k) ==
  IF k = KEY_RIGHT THEN KEY_LEFT ELSE IF k = KEY_LEFT THEN KEY_RIGHT ELSE k

\* l with every Right key replaced by Left and every Left by Right.
Mirror(l) ==
  [j \in 1 .. Len(l) |->
     [l[j] EXCEPT !.keys = [k \in 1 .. Len(@) |-> SwapKey(@[k])]]]

RECURSIVE SumWaits(_)
SumWaits(l) ==
  IF l = <<>> THEN 0
  ELSE (IF Head(l).op = "wait" THEN Head(l).ms ELSE 0) + SumWaits(Tail(l))

\* The key set the transport holds after the calls of l that were made,
\* when it held h before them.
RECURSIVE Asserted(_, _)
Asserted(l, h) ==
  IF l = <<>> THEN h
  ELSE LET e == l[Len(l)]
       IN  IF e.sent /\ e.op = "report" THEN e.keys
           ELSE IF e.sent /\ e.op = "release" THEN <<>>
           ELSE Asserted(SubSeq(l, 1, Len(l) - 1), h)

\* The running command has made its last call.
Done == pc = "macro" /\ step > Len(Body(cmd))

\* C3: cmd_hadouken(LP) with facingRight and the transport ready at every
\* send emits exactly: report {Down}, wait STEP; release, wait GAP; report
\* {Down,Right}, wait STEP; release, wait GAP; report {Right}, wait STEP/2;
\* report {LP} alone, wait TAP; release, wait GAP; release.  Nothing else.
C3_HadoukenSequence ==
  (/\ pc = "macro" /\ cmd = [name |-> "cmd_hadouken", arg |-> LP]
   /\ facingRight /\ AllSent(log))
    => LET e == <<Rep(<<KEY_DOWN>>), Wait(STEP), Rel, Wait(GAP),
                  Rep(<<KEY_DOWN, KEY_RIGHT>>), Wait(STEP), Rel, Wait(GAP),
                  Rep(<<KEY_RIGHT>>), Wait(STEP \div 2),
                  Rep(<<LP>>), Wait(TAP), Rel, Wait(GAP),
                  Rel>>
       IN  IF Done THEN log = e
           ELSE Len(log) < Len(e) /\ log = Prefix(e, Len(log))

C3_Witness ==
  /\ Done /\ cmd = [name |-> "cmd_hadouken", arg |-> LP]
  /\ facingRight /\ AllSent(log) /\ Len(log) = 15

\* C4: mirroring.  For each macro, attack code and readiness pattern, the
\* run with facingRight false is the run with facingRight true with Right
\* and Left exchanged: the trace facing right is the macro's trace with
\* Forward = Right and Backward = Left, and the trace facing left, mirrored,
\* is that same trace; Down, the attack key, the order and number of calls
\* and every wait are the same.
C4_Mirrored ==
  pc = "macro" =>
    LET e == TraceOf(cmd, KEY_RIGHT, KEY_LEFT)
        l == Erase(IF facingRight THEN log ELSE Mirror(log))
    IN  /\ l = Prefix(e, Len(l))
        /\ Done => Len(l) = Len(e)

C4_Witness ==
  /\ Done /\ cmd.name = "cmd_tatsu" /\ ~facingRight
  /\ \E j \in 1 .. Len(log) : log[j].op = "report" /\ log[j].keys = <<KEY_RIGHT>>

\* C5: with the transport ready at every send cmd_shoryu emits exactly:
\* report {Forward}, wait STEP/2; release, wait GAP/2; report {Down}, wait
\* STEP/2; release, wait GAP/2; report {Down,Forward}, wait STEP; report
\* {attack} alone, wait TAP; release, wait GAP; release.  Forward is Right
\* when facingRight and Left otherwise.
C5_ShoryuSequence ==
  (Done /\ cmd.name = "cmd_shoryu" /\ AllSent(log))
    => log = ShoryuTrace(IF facingRight THEN KEY_RIGHT ELSE KEY_LEFT, cmd.arg)

C5_Witness ==
  /\ Done /\ cmd.name = "cmd_shoryu" /\ AllSent(log)
  /\ ~facingRight /\ Len(log) = 15

\* C6: with the transport ready at every send cmd_tatsu emits exactly:
\* report {Down}, wait STEP; release, wait GAP; report {Down,Backward}, wait
\* STEP; release, wait GAP; report {Backward}, wait STEP/2; report {attack}
\* alone, wait TAP; release, wait GAP; release.  Backward is Left when
\* facingRight and Right otherwise.
C6_TatsuSequence ==
  (Done /\ cmd.name = "cmd_tatsu" /\ AllSent(log))
    => log = TatsuTrace(IF facingRight THEN KEY_LEFT ELSE KEY_RIGHT, cmd.arg)

C6_Witness ==
  /\ Done /\ cmd.name = "cmd_tatsu" /\ AllSent(log)
  /\ facingRight /\ Len(log) = 15 /\ hid = <<>>

\* C9: transport not ready.  Whatever the readiness at each send, a macro
\* attempts each of its calls once and in the order of the always-ready
\* trace (a dropped call is not attempted again), the transport holds what
\* the last call that was made left (a dropped call is not replayed), and
\* the waits and their sum are those of the always-ready trace.
C9_DroppedNotRetried ==
  pc = "macro" =>
    LET e == IF facingRight THEN TraceOf(cmd, KEY_RIGHT, KEY_LEFT)
             ELSE TraceOf(cmd, KEY_LEFT, KEY_RIGHT)
    IN  /\ Len(log) = step - 1
        /\ Erase(log) = Prefix(e, Len(log))
        /\ hid = Asserted(log, <<>>)
        /\ Done => (Len(log) = Len(e) /\ SumWaits(log) = SumWaits(e))

\* A send was dropped and later calls were made.
C9_Witness ==
  /\ Done
  /\ \E j, k \in 1 .. Len(log) :
       /\ j < k
       /\ log[j].op = "report" /\ ~log[j].sent
       /\ log[k].op = "report" /\ log[k].sent
  /\ ~log[Len(log)].sent

\* C10: cmd_hadouken blocks for STEP + GAP + STEP + GAP + STEP/2 + TAP + GAP
\* milliseconds, STEP/2 an integer division: 140 ms.
C10_HadoukenDuration ==
  (Done /\ cmd.name = "cmd_hadouken") =>
    /\ SumWaits(log) = STEP + GAP + STEP + GAP + (STEP \div 2) + TAP + GAP
    /\ SumWaits(log) = 140
    /\ t = 140

C10_Witness == Done /\ cmd.name = "cmd_hadouken" /\ t = 140 /\ ~AllSent(log)

\* The trace of command c when the facing is f.
FacingTrace(c, f) ==
  IF f THEN TraceOf(c, KEY_RIGHT, KEY_LEFT) ELSE TraceOf(c, KEY_LEFT, KEY_RIGHT)

\* C11: two presses of the facing toggle bring facingRight back: it is true
\* exactly after an even number of presses of channel 3.  A macro emits the
\* trace of the facing that this number gives, so after two presses it
\* emits what it emitted before them.
C11_ToggleTwice ==
  /\ facingRight = (nPress[BTN_TOGGLE_FACE] % 2 = 0)
  /\ pc = "macro" =>
       Erase(log) = Prefix(FacingTrace(cmd, nPress[BTN_TOGGLE_FACE] % 2 = 0),
                           Len(log))

\* A macro has run to its end after two presses of the toggle.
C11_Witness ==
  /\ Done
  /\ nPress[BTN_TOGGLE_FACE] = 2
  /\ Len(log) = 15
  /\ \E j \in 1 .. Len(log) : KEY_RIGHT \in {log[j].keys[k] : k \in 1 .. Len(log[j].keys)}

MacroChannels == {c \in Channels : IsMacro(onPressed(c))}

\* This step calls a macro.
MacroBegins == pc' = "macro" /\ step' = 1 /\ (pc = "idle" \/ i' # i)

\* C12: macros do not interleave and are called in ascending channel
\* order.  A macro is called only from outside loop() or when the macro
\* before it has made its last call; a step presses at most one macro
\* channel, the channel whose macro it calls, and only channels above the
\* one whose macro has just ended, so of two channels pressed in one scan
\* cycle the lower runs its macro to the final release-all before the higher
\* is pressed; and the transport is called only by the one running macro.
C12_NoInterleaving ==
  [][/\ MacroBegins =>
          /\ pc = "idle" \/ (Done /\ Len(log) = Len(Body(cmd)) /\ i' > i)
          /\ Pressed(i') /\ cmd' = onPressed(i') /\ log' = <<>>
     /\ \A c \in Channels :
          Pressed(c) =>
            /\ pc = "idle" \/ (Done /\ c > i)
            /\ c \in MacroChannels => (MacroBegins /\ c = i')
            /\ c <= i'
     /\ (hid' # hid \/ Len(log') > Len(log)) =>
          (pc = "macro" /\ ~Done /\ pc' = "macro" /\ cmd' = cmd /\ i' = i
           /\ step' = step + 1)]_vars

\* Channels 0 and 1 were pressed in one scan cycle: the macro of channel 1
\* begins in the call of loop() that read now before the 140 ms macro of
\* channel 0.
C12_Witness ==
  /\ pc = "macro" /\ i = BTN_SHORYU /\ step = 1
  /\ nPress[BTN_HADOU] = 1 /\ nPress[BTN_SHORYU] = 1
  /\ t = nowT + 140
  /\ hid = <<>>

\* The kind of macro operation a log entry records.
OpOf(e) ==
  IF e.op = "report" THEN "sendKeys"
  ELSE IF e.op = "release" THEN "releaseAll" ELSE "delay"

\* C13: a macro that has begun runs to completion.  While it has calls left,
\* every step (a change of any pin included) keeps the macro, its channel and
\* its facing; the step counter stays or moves to the next call, never back,
\* never past one, and the call made is the one at that position of the
\* macro, so the log is always a prefix of the macro's trace.  After the last
\* call the for goes on with the next channel: channels up to i keep their
\* debounce state and channel i + 1 takes its debounce step with the pin
\* level of that moment.
C13_RunsToCompletion ==
  [][/\ (pc = "macro" /\ ~Done) =>
          /\ pc' = "macro" /\ cmd' = cmd /\ i' = i
          /\ facingRight' = facingRight
          /\ \/ step' = step /\ log' = log /\ hid' = hid
             \/ /\ step' = step + 1
                /\ Len(log') = step
                /\ Prefix(log', step - 1) = log
                /\ OpOf(log'[step]) = Body(cmd)[step].op
          /\ Erase(log') = Prefix(FacingTrace(cmd, facingRight), Len(log'))
     /\ Done =>
          /\ Len(log) = Len(Body(cmd))
          /\ Erase(log) = FacingTrace(cmd, facingRight)
          /\ \A c \in 0 .. i :
               /\ lastStable'[c] = lastStable[c]
               /\ debouncing'[c] = debouncing[c]
               /\ lastChangeMs'[c] = lastChangeMs[c]
          /\ i' > i
          /\ i + 1 < N =>
               LET r == Debounce(pin[i + 1], lastStable[i + 1],
                                 debouncing[i + 1], lastChangeMs[i + 1], now)
               IN  /\ lastStable'[i + 1] = r.stable
                   /\ debouncing'[i + 1] = r.deb
                   /\ lastChangeMs'[i + 1] = r.last
                   /\ Pressed(i + 1) = r.press]_vars

\* A macro has made all its calls, every one sent, although its own button
\* was released and another button changed level while it ran.
C13_Witness ==
  /\ Done
  /\ AllSent(log)
  /\ Erase(log) = FacingTrace(cmd, facingRight)
  /\ mPins[i] > 0 /\ pin[i] = HIGH
  /\ \E c \in Channels : c # i /\ mPins[c] > 0

\* The channel of case 4 of the switch of onPressed, which has no action.
BTN_NONE == N - 1

\* C14: a debounced press of channel 4 is ignored.  The step that commits it
\* makes no transport call and starts no macro, it leaves facingRight alone
\* (a change of it in the same call of loop() is a press of the toggle), it
\* leaves channel 4 stable at LOW and not debouncing, and every other channel
\* keeps its debounce state or takes its own debounce step.
C14_NoActionIgnored ==
  [][Pressed(BTN_NONE) =>
       /\ hid' = hid /\ log' = <<>>
       /\ pc' = "idle" /\ cmd' = NoCmd /\ step' = 0 /\ i' = N
       /\ facingRight' =
            IF Pressed(BTN_TOGGLE_FACE) THEN ~facingRight ELSE facingRight
       /\ lastStable[BTN_NONE] = HIGH /\ lastStable'[BTN_NONE] = LOW
       /\ ~debouncing'[BTN_NONE]
       /\ lastChangeMs'[BTN_NONE] = lastChangeMs[BTN_NONE]
       /\ nPress'[BTN_NONE] = nPress[BTN_NONE] + 1
       /\ \A c \in Channels \ {BTN_NONE} :
            LET r == Debounce(pin[c], lastStable[c], debouncing[c],
                              lastChangeMs[c], now')
            IN  \/ /\ lastStable'[c] = lastStable[c]
                   /\ debouncing'[c] = debouncing[c]
                   /\ lastChangeMs'[c] = lastChangeMs[c]
                \/ /\ lastStable'[c] = r.stable
                   /\ debouncing'[c] = r.deb
                   /\ lastChangeMs'[c] = r.last]_vars

\* Channel 4 has just been pressed, in a call of loop() that ran to its end,
\* and no key is asserted.
C14_Witness ==
  /\ nPress[BTN_NONE] = 1 /\ lastStable[BTN_NONE] = LOW
  /\ pin[BTN_NONE] = LOW
  /\ pc = "idle" /\ i = N /\ t = nowT
  /\ hid = <<>> /\ facingRight

\* C15: facingRight is written only by the toggle action.  A step changes it
\* exactly when it presses channel 3, and then from outside a macro; a step
\* inside a macro, a debounce step, a committed release and a press of
\* another channel leave it alone; so every report of one macro execution is
\* resolved with the same facing, the one the macro ends with.
C15_FacingFrame ==
  [][/\ (facingRight' # facingRight) = Pressed(BTN_TOGGLE_FACE)
     /\ Pressed(BTN_TOGGLE_FACE) => (pc = "idle" \/ Done)
     /\ (pc = "macro" /\ ~Done) => facingRight' = facingRight
     /\ \A c \in Channels \ {BTN_TOGGLE_FACE} :
          (Committed(c) \/ Pressed(c) \/ debouncing'[c] # debouncing[c])
            /\ ~Pressed(BTN_TOGGLE_FACE)
          => facingRight' = facingRight
     /\ (Committed(BTN_TOGGLE_FACE) /\ lastStable'[BTN_TOGGLE_FACE] = HIGH)
          => facingRight' = facingRight
     /\ pc' = "macro" =>
          \A j \in 1 .. Len(log') :
            Erase(log')[j] = FacingTrace(cmd', facingRight')[j]]_vars

\* A macro has made all its calls facing left, after one press of the toggle
\* and its committed release, while the toggle button went down again inside
\* the macro.
C15_Witness ==
  /\ Done /\ AllSent(log)
  /\ ~facingRight
  /\ nPress[BTN_TOGGLE_FACE] = 1
  /\ lastStable[BTN_TOGGLE_FACE] = HIGH
  /\ mPins[BTN_TOGGLE_FACE] > 0 /\ pin[BTN_TOGGLE_FACE] = LOW

\* C16: a press of channel c is emitted only if c was sampled away from
\* its stable level on two scans at least DEBOUNCE_MS of real time apart, the
\* case of a channel sampled after a macro of the same call of loop()
\* included.  Here awayS[c] is the real time of the first such sample and t
\* the real time of the sample that commits.
C16_RealTimeDebounce ==
  [][\A c \in Channels :
       Pressed(c) => (awayS[c] # -1 /\ t' - awayS[c] >= DEBOUNCE_MS)]_vars

\* The state before the press that contradicts it: channel 1 went LOW inside
\* the 140 ms macro of channel 0, was sampled after the macro and stamped
\* with the now read before it, and loop() may be called again at once.
C16_Witness ==
  /\ pc = "idle" /\ i = N
  /\ nPress[BTN_HADOU] = 1 /\ nPress[BTN_SHORYU] = 0
  /\ pin[BTN_SHORYU] = LOW /\ lastStable[BTN_SHORYU] = HIGH
  /\ debouncing[BTN_SHORYU]
  /\ awayS[BTN_SHORYU] = t /\ awayT[BTN_SHORYU] = t - 140
  /\ lastChangeMs[BTN_SHORYU] = now /\ U32Sub(clock, now) = U32(0, 140)

\* This step takes the scan step of channel c: loop() is called, or a macro
\* returns and the for goes on past c.
Scans(c) ==
  \/ pc = "idle" /\ pin' = pin /\ t' = t /\ c <= i'
  \/ Done /\ i < c /\ c <= i'

\* C17: the debounce state invariant.  After the scan step of channel c,
\* debouncing[c] implies that the sample just taken differs from
\* lastStable[c] and that lastChangeMs[c] is the now of the scan that began
\* the transition, which is not after the current now: now - lastChangeMs[c]
\* is the time between the two readings of now.  A sample equal to
\* lastStable[c] leaves debouncing[c] false.  Between scan steps the stamp of
\* a debouncing channel stays that of the scan that began the transition.
C17_DebounceInvariant ==
  [][\A c \in Channels :
       /\ (Scans(c) /\ debouncing'[c]) =>
            /\ pin[c] # lastStable'[c]
            /\ lastStable'[c] = lastStable[c]
            /\ lastChangeMs'[c] = (IF debouncing[c] THEN lastChangeMs[c]
                                   ELSE now')
       /\ (Scans(c) /\ pin[c] = lastStable[c]) => ~debouncing'[c]
       /\ debouncing'[c] =>
            /\ awayT'[c] # -1 /\ awayT'[c] <= nowT'
            /\ U32Sub(now', lastChangeMs'[c]) = U32(0, nowT' - awayT'[c])]_vars

\* Channel 1 is debouncing with a stamp 15 ms before the current now, and
\* channel 0, sampled equal to its stable level after a bounce, is not.
C17_Witness ==
  /\ pc = "idle" /\ t = nowT
  /\ debouncing[BTN_SHORYU] /\ pin[BTN_SHORYU] # lastStable[BTN_SHORYU]
  /\ U32Sub(now, lastChangeMs[BTN_SHORYU]) = U32(0, 15)
  /\ ~debouncing[BTN_HADOU] /\ pin[BTN_HADOU] = lastStable[BTN_HADOU]
  /\ lastChangeMs[BTN_HADOU] # U32(0, 0) /\ nPress[BTN_HADOU] = 0

\* The positions of the last two release-all calls of log l.
LastTwoReleases(l) ==
  LET rel == {j \in 1 .. Len(l) : l[j].op = "release"}
  IN  {j \in rel : Cardinality({k \in rel : k > j}) < 2}

\* C18: when a macro returns and the transport was ready at one at least of
\* its last two release-all calls, no key is asserted: the macro has two
\* such calls, no report is attempted between or after them, and the key set
\* is empty.  The return leaves the transport alone (C12), so the scanner is
\* idle with no key asserted.
C18_ReleasedAtReturn ==
  Done =>
    LET last == LastTwoReleases(log)
    IN  /\ Cardinality(last) = 2
        /\ Len(log) \in last
        /\ (\E j \in last : log[j].sent) =>
             /\ hid = <<>>
             /\ \A j \in last : \A k \in j .. Len(log) : log[k].op # "report"

\* A macro has returned with no key asserted although its final release-all
\* was dropped, and a report before it was sent.
C18_Witness ==
  /\ Done
  /\ ~log[Len(log)].sent
  /\ \E j \in 1 .. Len(log) : log[j].op = "report" /\ log[j].sent
  /\ \E j \in LastTwoReleases(log) : log[j].sent
  /\ hid = <<>>

\* The button held at setup, and the number of times it has changed level.
Held == CHOOSE h \in moving : TRUE
HeldChanges == MaxPinChanges - pinLeft

\* C19: a button LOW when setup() samples it is adopted as stable.  While it
\* stays held, however long, it gives no press, no transition and no key; the
\* commit of its release calls nothing; and a press of it is a debounced
\* commit from HIGH to LOW, after the release and a new press of the button.
C19_HeldAtSetup ==
  [][/\ HeldChanges' = 0 =>
          /\ nPress'[Held] = 0 /\ lastStable'[Held] = LOW
          /\ ~debouncing'[Held] /\ awayT'[Held] = -1
          /\ pc' = "idle" /\ hid' = <<>>
     /\ (Committed(Held) /\ lastStable'[Held] = HIGH) =>
          /\ nPress' = nPress /\ hid' = hid /\ log' = <<>>
          /\ pc' = "idle" /\ facingRight' = facingRight
     /\ Pressed(Held) =>
          /\ HeldChanges >= 2
          /\ lastStable[Held] = HIGH /\ pin[Held] = LOW
          /\ awayT[Held] # -1 /\ nowT' - awayT[Held] >= DEBOUNCE_MS
     /\ 2 * nPress'[Held] <= HeldChanges']_vars

\* The button held at setup for 60 ms and more gave its first press after
\* its release and a second press of it.
C19_Witness ==
  /\ nPress[Held] = 1 /\ HeldChanges = 2
  /\ lastStable[Held] = LOW /\ pin[Held] = LOW
  /\ t >= 4 * DEBOUNCE_MS

\* now was read after millis() wrapped and stamp v before.
AcrossWrap(v, nowv) == v[1] = W16 - 1 /\ nowv[1] = 0

\* C20: the test now - lastChangeMs[i] >= DEBOUNCE_MS is unsigned 32-bit
\* modular.  When channel c is debouncing and sampled away from its stable
\* level, the scan commits exactly when DEBOUNCE_MS or more real
\* milliseconds have passed since the scan that began the transition, and
\* the test gives that answer, also when millis() wrapped from 2^32 - 1 to 0
\* between the two scans.
C20_WrapSafe ==
  [][\A c \in Channels :
       (Scans(c) /\ debouncing[c] /\ pin[c] # lastStable[c]) =>
         /\ awayT[c] # -1 /\ awayS[c] = awayT[c]
         /\ Committed(c) = (nowT' - awayT[c] >= DEBOUNCE_MS)
         /\ Elapsed(now', lastChangeMs[c]) = (nowT' - awayT[c] >= DEBOUNCE_MS)
         /\ AcrossWrap(lastChangeMs[c], now') =>
              U32Sub(now', lastChangeMs[c]) = U32(0, nowT' - awayT[c])]_vars

\* A press was committed by a scan after the wrap for a transition stamped
\* before it, 30 ms earlier.
C20_Witness ==
  \E c \in Channels :
    /\ nPress[c] = 1 /\ lastStable[c] = LOW /\ ~debouncing[c]
    /\ AcrossWrap(lastChangeMs[c], now)
    /\ U32Sub(now, lastChangeMs[c]) = U32(0, DEBOUNCE_MS)
    /\ pc = "idle" /\ t = nowT

====
